---------------------------- MODULE Spec2Model ----------------------------
(***************************************************************************)
(* Model of streamlit_app.py: the EMI calculator, the month-by-month      *)
(* loan / house / mutual-fund simulation and the sweep over prepayment     *)
(* months.                                                                 *)
(*                                                                         *)
(* Python floats are binary floating point numbers rounded to nearest,     *)
(* ties to even, after every operation.  The model keeps that arithmetic   *)
(* and shortens the significand from 53 to Prec bits, so that every        *)
(* intermediate integer fits TLC's 32-bit integers.  The exponent is       *)
(* unbounded (no overflow to inf, no subnormals).                          *)
(***************************************************************************)
EXTENDS Integers, Sequences, FiniteSets, TLC

\* Significand width of the modelled floats (53 in CPython).
Prec == 10

\* The absent value (Python's None); it differs from every float, record and
\* Closed(m).
None == <<>>

\* A loan_closed_month that is set.
Closed(m) == [month |-> m]

-----------------------------------------------------------------------------
(* Floating point: a float is [m |-> significand, e |-> exponent], worth   *)
(* m * 2^e, with m = 0 /\ e = 0 or 2^(Prec-1) <= |m| < 2^Prec.             *)

Abs(x) == IF x < 0 THEN -x ELSE x

Sgn(x) == IF x < 0 THEN -1 ELSE IF x > 0 THEN 1 ELSE 0

RECURSIVE BitLen(_)
BitLen(x) == IF x = 0 THEN 0 ELSE 1 + BitLen(x \div 2)

Zero == [m |-> 0, e |-> 0]

\* The float nearest to m * 2^e, ties to even.
Round(m, e) ==
    IF m = 0 THEN Zero
    ELSE LET a == Abs(m)
             L == BitLen(a)
         IN  IF L <= Prec
             THEN [m |-> Sgn(m) * a * 2^(Prec - L), e |-> e - (Prec - L)]
             ELSE LET k    == L - Prec
                      q    == a \div 2^k
                      r    == a % 2^k
                      half == 2^(k - 1)
                      up   == r > half \/ (r = half /\ q % 2 = 1)
                      q2   == IF up THEN q + 1 ELSE q
                  IN  IF q2 = 2^Prec
                      THEN [m |-> Sgn(m) * 2^(Prec - 1), e |-> e + k + 1]
                      ELSE [m |-> Sgn(m) * q2, e |-> e + k]

\* float(i) for a Python int i.
FromInt(i) == Round(i, 0)

One == FromInt(1)

FNeg(a) == [m |-> -a.m, e |-> a.e]

FMul(a, b) == Round(a.m * b.m, a.e + b.e)

\* a + b: exact when the exponents are close, else the smaller operand is
\* below a quarter of the last place of the larger one and rounds away.
FAdd(a, b) ==
    IF a.m = 0 THEN b
    ELSE IF b.m = 0 THEN a
    ELSE IF a.e - b.e > Prec + 3 THEN a
    ELSE IF b.e - a.e > Prec + 3 THEN b
    ELSE LET e == IF a.e < b.e THEN a.e ELSE b.e
         IN  Round(a.m * 2^(a.e - e) + b.m * 2^(b.e - e), e)

FSub(a, b) == FAdd(a, FNeg(b))

\* a / b for b # 0: the quotient to Prec + 2 bits and a sticky bit, rounded.
FDiv(a, b) ==
    IF a.m = 0 THEN Zero
    ELSE LET n  == Abs(a.m) * 2^(Prec + 2)
             d  == Abs(b.m)
             q  == n \div d
             st == IF n % d = 0 THEN 0 ELSE 1
         IN  Round(Sgn(a.m) * Sgn(b.m) * (2 * q + st), a.e - b.e - (Prec + 2) - 1)

FLt(a, b) == FSub(a, b).m < 0

FLe(a, b) == FSub(a, b).m <= 0

\* Python's min(a, b): b when b < a, else a.
FMin(a, b) == IF FLt(b, a) THEN b ELSE a

\* x ** k for an int k >= 0, by repeated rounded multiplication.
RECURSIVE PowPos(_, _)
PowPos(x, k) == IF k = 0 THEN One ELSE FMul(PowPos(x, k - 1), x)

\* x ** k for any int k (x # 0 when k < 0).
FPow(x, k) == IF k >= 0 THEN PowPos(x, k) ELSE FDiv(One, PowPos(x, -k))

\* x ** (1/12) for x >= 0: the largest float whose 12th power is <= x.
RECURSIVE RootSearch(_, _, _, _)
RootSearch(x, lo, hi, ey) ==
    IF lo = hi THEN [m |-> lo, e |-> ey]
    ELSE LET mid == (lo + hi + 1) \div 2
         IN  IF FLe(PowPos([m |-> mid, e |-> ey], 12), x)
             THEN RootSearch(x, mid, hi, ey)
             ELSE RootSearch(x, lo, mid - 1, ey)

TwelfthRoot(x) ==
    IF x.m = 0 THEN Zero
    ELSE RootSearch(x, 2^(Prec - 1), 2^Prec - 1,
                    ((x.e + Prec - 1) \div 12) - (Prec - 1))

-----------------------------------------------------------------------------
(* calculate_emi                                                           *)

\* (annual_interest_rate / 100.0) / 12.0
MonthlyRate(annual_interest_rate) ==
    FDiv(FDiv(annual_interest_rate, FromInt(100)), FromInt(12))

\* 1 - (1 + monthly_interest_rate) ** (-tenure_months), the divisor of line 19
EmiDivisor(annual_interest_rate, tenure_months) ==
    FSub(One, FPow(FAdd(One, MonthlyRate(annual_interest_rate)), -tenure_months))

\* TRUE when calculate_emi raises ZeroDivisionError instead of returning
EmiRaises(principal, annual_interest_rate, tenure_months) ==
    IF MonthlyRate(annual_interest_rate).m = 0
    THEN tenure_months = 0
    ELSE EmiDivisor(annual_interest_rate, tenure_months).m = 0

\* The value calculate_emi returns when it does not raise
calculate_emi(principal, annual_interest_rate, tenure_months) ==
    IF MonthlyRate(annual_interest_rate).m = 0
    THEN FDiv(principal, FromInt(tenure_months))
    ELSE FDiv(FMul(principal, MonthlyRate(annual_interest_rate)),
              EmiDivisor(annual_interest_rate, tenure_months))

\* (1 + annual_growth) ** (1/12) - 1
MonthlyGrowth(annual_growth) == FSub(TwelfthRoot(FAdd(One, annual_growth)), One)

-----------------------------------------------------------------------------
(* State                                                                   *)

VARIABLES
    args,                 \* the eight arguments shared by the runs of a sweep
    prepay_month,         \* the ninth argument of the current call
    pc,                   \* position in main / simulate_loan_mf_scenario
    monthly_house_rate, monthly_mf_rate, emi,
    current_principal, current_house_value, current_mf_value,
    loan_closed_month, month,
    lumpsum,              \* the local of line 59, None while unassigned
    iter,                 \* this iteration: the fund addend used, the principal and
                          \* the fund at line 58, the lumpsum withdrawn
    log,                  \* one record per finished iteration of the current call
    outcome,              \* how the last call ended: returned value or exception
    base,                 \* the finished run with prepay_month = 0 of the same args
    calls,                \* calls made so far (in main: the position of range(), line 104)
    results               \* main's list of records

locals == <<monthly_house_rate, monthly_mf_rate, emi, current_principal,
            current_house_value, current_mf_value, loan_closed_month, month>>

ghost == <<lumpsum, iter, log>>

vars == <<args, prepay_month, pc, locals, ghost, outcome, base, calls, results>>

NoIter == [contrib |-> None, owed |-> None, fund |-> None, lump |-> None]

-----------------------------------------------------------------------------
(* simulate_loan_mf_scenario                                               *)

\* Lines 33-41: the monthly rates, the EMI and the initial locals.  The call
\* ends here with ZeroDivisionError when calculate_emi divides by zero.
Enter(pm) ==
    /\ prepay_month' = pm
    /\ calls' = calls + 1
    /\ lumpsum' = None
    /\ iter' = NoIter
    /\ log' = <<>>
    /\ monthly_house_rate' = MonthlyGrowth(args.house_annual_growth)
    /\ monthly_mf_rate' = MonthlyGrowth(args.mf_annual_growth)
    /\ current_principal' = args.loan_principal
    /\ current_house_value' = args.house_value
    /\ current_mf_value' = args.mf_initial_investment
    /\ loan_closed_month' = None
    /\ month' = 0
    /\ IF EmiRaises(args.loan_principal, args.annual_loan_rate, args.tenure_months)
       THEN /\ emi' = None
            /\ outcome' = [kind |-> "ZeroDivisionError"]
            /\ pc' = "raised"
       ELSE /\ emi' = calculate_emi(args.loan_principal, args.annual_loan_rate,
                                    args.tenure_months)
            /\ outcome' = None
            /\ pc' = "loop"
    /\ UNCHANGED <<args, base, results>>

\* Lines 43-44: the next month of range(1, tenure_months + 1); house growth.
GrowHouse ==
    /\ pc = "loop"
    /\ month < args.tenure_months
    /\ month' = month + 1
    /\ current_house_value' = FMul(current_house_value, FAdd(One, monthly_house_rate))
    /\ iter' = NoIter
    /\ pc' = "contribute"
    /\ UNCHANGED <<args, prepay_month, monthly_house_rate, monthly_mf_rate, emi,
                   current_principal, current_mf_value, loan_closed_month,
                   lumpsum, log, outcome, base, calls, results>>

\* Contribution that never redirects the EMI.
Contribution_NoRedirect == args.mf_monthly_addition

\* Lines 46-49: the amount added to the fund this month.
Contribution ==
    IF loan_closed_month = None
    THEN args.mf_monthly_addition
    ELSE FAdd(emi, args.mf_monthly_addition)

Contribute ==
    /\ pc = "contribute"
    /\ current_mf_value' = FAdd(current_mf_value, Contribution)
    /\ iter' = [iter EXCEPT !.contrib = Contribution]
    /\ pc' = IF loan_closed_month = None THEN "amortize" ELSE "grow_fund"
    /\ UNCHANGED <<args, prepay_month, monthly_house_rate, monthly_mf_rate, emi,
                   current_principal, current_house_value, loan_closed_month, month,
                   lumpsum, log, outcome, base, calls, results>>

\* ClampZero with the clamp forgotten.
ClampZero_NoClamp(x) == x

\* Lines 55-56 and 62-63: if current_principal < 0: current_principal = 0
ClampZero(x) == IF x.m < 0 THEN Zero ELSE x

\* Lines 52-56: the principal after this month's EMI.
Amortized(principal) ==
    LET monthly_interest == FMul(principal, MonthlyRate(args.annual_loan_rate))
        monthly_principal_part == FSub(emi, monthly_interest)
    IN  ClampZero(FSub(principal, monthly_principal_part))

Amortize ==
    /\ pc = "amortize"
    /\ current_principal' = Amortized(current_principal)
    /\ pc' = "prepay"
    /\ UNCHANGED <<args, prepay_month, monthly_house_rate, monthly_mf_rate, emi,
                   current_house_value, current_mf_value, loan_closed_month, month,
                   ghost, outcome, base, calls, results>>

\* PrepayDue taken one month late.
PrepayDue_Late == month = prepay_month + 1 /\ current_principal.m > 0

\* PrepayDue taken one month early.
PrepayDue_Early == month + 1 = prepay_month /\ current_principal.m > 0

\* Line 58: the condition of the one-time prepayment.
PrepayDue == month = prepay_month /\ current_principal.m > 0

\* Lumpsum that ignores what the fund holds.
Lumpsum_WholePrincipal == current_principal

\* Line 59
Lumpsum == FMin(current_mf_value, current_principal)

\* AfterLumpsum with the lumpsum added to the principal.
AfterLumpsum_Added(principal, l) == ClampZero(FAdd(principal, l))

\* Lines 61-63: the principal after a lumpsum l
AfterLumpsum(principal, l) == ClampZero(FSub(principal, l))

\* Lines 58-63
Prepay ==
    /\ pc = "prepay"
    /\ IF PrepayDue
       THEN /\ lumpsum' = Lumpsum
            /\ current_mf_value' = FSub(current_mf_value, Lumpsum)
            /\ current_principal' = AfterLumpsum(current_principal, Lumpsum)
       ELSE UNCHANGED <<lumpsum, current_mf_value, current_principal>>
    /\ iter' = [iter EXCEPT !.owed = current_principal,
                            !.fund = current_mf_value,
                            !.lump = IF PrepayDue THEN Lumpsum ELSE None]
    /\ pc' = "close"
    /\ UNCHANGED <<args, prepay_month, monthly_house_rate, monthly_mf_rate, emi,
                   current_house_value, loan_closed_month, month,
                   log, outcome, base, calls, results>>

\* ClosesNow with < in place of <=.
ClosesNow_Strict == current_principal.m < 0 /\ loan_closed_month = None

\* Line 65: the loan is paid off and not yet marked closed.
ClosesNow == current_principal.m <= 0 /\ loan_closed_month = None

\* Lines 65-66
MarkClosed ==
    /\ pc = "close"
    /\ loan_closed_month' = IF ClosesNow THEN Closed(month) ELSE loan_closed_month
    /\ pc' = "grow_fund"
    /\ UNCHANGED <<args, prepay_month, monthly_house_rate, monthly_mf_rate, emi,
                   current_principal, current_house_value, current_mf_value, month,
                   ghost, outcome, base, calls, results>>

\* Line 68, the last statement of the iteration.
GrowFund ==
    /\ pc = "grow_fund"
    /\ current_mf_value' = FMul(current_mf_value, FAdd(One, monthly_mf_rate))
    /\ log' = Append(log, [contrib   |-> iter.contrib,
                           owed      |-> iter.owed,
                           fund      |-> iter.fund,
                           lump      |-> iter.lump,
                           principal |-> current_principal,
                           closed    |-> loan_closed_month])
    /\ pc' = "loop"
    /\ UNCHANGED <<args, prepay_month, monthly_house_rate, monthly_mf_rate, emi,
                   current_principal, current_house_value, loan_closed_month, month,
                   lumpsum, iter, outcome, base, calls, results>>

\* Line 70: the loop is exhausted (at once when tenure_months <= 0).
Return ==
    /\ pc = "loop"
    /\ month >= args.tenure_months
    /\ outcome' = [kind   |-> "returned",
                   house  |-> current_house_value,
                   mf     |-> current_mf_value,
                   closed |-> loan_closed_month]
    /\ pc' = "returned"
    /\ UNCHANGED <<args, prepay_month, locals, ghost, base, calls, results>>

Step == GrowHouse \/ Contribute \/ Amortize \/ Prepay \/ MarkClosed \/ GrowFund \/ Return

-----------------------------------------------------------------------------
(* Direct calls of simulate_loan_mf_scenario: one run with prepay_month = 0 *)
(* and then one run with any prepay_month, on the same other arguments.     *)

\* Largest tenure_months of the direct calls.
MaxTenure == 3

\* n / d as a float, for arguments such as 0.14
Dec(n, d) == FDiv(FromInt(n), FromInt(d))

ApiArgs ==
    [loan_principal        : {FromInt(p) : p \in {-100, 100, 1000}},
     annual_loan_rate      : {FromInt(r) : r \in {0, 12}},
     tenure_months         : -1 .. MaxTenure,
     house_value           : {FromInt(500)},
     house_annual_growth   : {Dec(5, 100)},
     mf_initial_investment : {FromInt(f) : f \in {0, 50, 2000}},
     mf_monthly_addition   : {FromInt(a) : a \in {0, 10}},
     mf_annual_growth      : {Dec(g, 100) : g \in {0, 14}}]

PrepayArgs == -1 .. (args.tenure_months + 1)

Idle ==
    /\ prepay_month = None
    /\ monthly_house_rate = None /\ monthly_mf_rate = None /\ emi = None
    /\ current_principal = None /\ current_house_value = None
    /\ current_mf_value = None
    /\ loan_closed_month = None /\ month = 0
    /\ lumpsum = None /\ iter = NoIter /\ log = <<>>
    /\ outcome = None /\ base = None /\ calls = 0 /\ results = <<>>

Init ==
    /\ args \in ApiArgs
    /\ pc = "start"
    /\ Idle

ApiCall ==
    \/ /\ pc = "start"
       /\ Enter(0)
    \/ /\ pc = "idle"
       /\ \E pm \in PrepayArgs : Enter(pm)

\* The caller receives the result or the exception; the first run is kept
\* as the baseline of the second.
ApiCollect ==
    /\ pc \in {"returned", "raised"}
    /\ base' = IF calls = 1 THEN [outcome |-> outcome, log |-> log] ELSE base
    /\ pc' = IF calls = 1 THEN "idle" ELSE "done"
    /\ UNCHANGED <<args, prepay_month, locals, ghost, outcome, calls, results>>

Next == ApiCall \/ Step \/ ApiCollect

Spec == Init /\ [][Next]_vars

-----------------------------------------------------------------------------
(* main: the sliders, the unit conversions and the sweep of lines 103-122.  *)

\* Largest value of the "Tenure (years)" slider in the model.
MaxYears == 1

Lakh == 100000

Crore == 10000000

Sliders ==
    [loan_principal_lakhs        : {FromInt(1), FromInt(50)},
     annual_interest_rate_loan   : {FromInt(0), FromInt(8)},
     tenure_years                : 1 .. MaxYears,
     house_value_cr              : {FromInt(2)},
     house_annual_growth         : {FromInt(5)},
     mf_initial_investment_lakhs : {FromInt(0), FromInt(33)},
     mf_monthly_addition_lakhs   : {FromInt(0), Dec(235, 100)},
     mf_annual_growth            : {FromInt(14)}]

\* Lines 84 and 95-101, as the arguments of lines 106-113.
MainArgs(s) ==
    [loan_principal        |-> FMul(s.loan_principal_lakhs, FromInt(Lakh)),
     annual_loan_rate      |-> s.annual_interest_rate_loan,
     tenure_months         |-> s.tenure_years * 12,
     house_value           |-> FMul(s.house_value_cr, FromInt(Crore)),
     house_annual_growth   |-> FDiv(s.house_annual_growth, FromInt(100)),
     mf_initial_investment |-> FMul(s.mf_initial_investment_lakhs, FromInt(Lakh)),
     mf_monthly_addition   |-> FMul(s.mf_monthly_addition_lakhs, FromInt(Lakh)),
     mf_annual_growth      |-> FDiv(s.mf_annual_growth, FromInt(100))]

MainInit ==
    /\ \E s \in Sliders : args = MainArgs(s)
    /\ pc = "main"
    /\ Idle

\* Lines 104-115: the next prepay_month of range(0, tenure_months + 1).
MainCall ==
    /\ pc = "main"
    /\ calls <= args.tenure_months
    /\ Enter(calls)

\* Lines 116-122: the record appended for the run that returned.
Record ==
    [PrepayMonth |-> prepay_month,
     HouseValue  |-> outcome.house,
     MFValue     |-> outcome.mf,
     NetWorth    |-> FAdd(outcome.house, outcome.mf)]

MainAppend ==
    /\ pc = "returned"
    /\ results' = Append(results, Record)
    /\ pc' = "main"
    /\ UNCHANGED <<args, prepay_month, locals, ghost, outcome, base, calls>>

\* Line 124: range() is exhausted and the list becomes the data frame.
MainDone ==
    /\ pc = "main"
    /\ calls > args.tenure_months
    /\ pc' = "df"
    /\ UNCHANGED <<args, prepay_month, locals, ghost, outcome, base, calls, results>>

MainNext == MainCall \/ Step \/ MainAppend \/ MainDone

MainSpec == MainInit /\ [][MainNext]_vars

-----------------------------------------------------------------------------
(* Properties                                                              *)

\* The arguments other than prepay_month are valid.
ValidArgs ==
    /\ args.loan_principal.m > 0
    /\ args.annual_loan_rate.m >= 0
    /\ args.tenure_months > 0
    /\ args.mf_initial_investment.m >= 0
    /\ args.mf_monthly_addition.m >= 0

\* A call with valid arguments is in progress or has returned.
ValidCall ==
    /\ ValidArgs
    /\ prepay_month \in 0 .. args.tenure_months

InRun == pc \in {"loop", "contribute", "amortize", "prepay", "close",
                 "grow_fund", "returned"}

\* The step starts a new call.
NewCall == calls' # calls

\* The months of log in which a lumpsum was withdrawn.
LumpMonths(l) == {i \in DOMAIN l : l[i].lump # None}

\* C1: on valid input the running principal is >= 0 at every point of the
\* run, in particular at the end of every month 1..tenure and at the return.
C1_PrincipalNonNegative ==
    (InRun /\ ValidCall) =>
        /\ current_principal.m >= 0
        /\ \A i \in DOMAIN log : log[i].principal.m >= 0

\* A valid run returned after a month whose amortization was clamped at zero
\* and after a lumpsum that left a positive principal.
C1_Witness ==
    /\ pc = "returned" /\ ValidCall
    /\ Len(log) = args.tenure_months
    /\ current_principal = Zero
    /\ \E i \in DOMAIN log : log[i].lump # None /\ log[i].principal.m > 0

\* C2: within one run loan_closed_month goes from None to Closed(m) at most
\* once; m is in 1..tenure and is the first month at whose end the principal
\* is <= 0; it never changes afterwards, and from then on the principal stays
\* 0 and neither amortization nor a lumpsum is applied.
C2_ClosedMonthState ==
    /\ loan_closed_month # None =>
          /\ loan_closed_month.month \in 1 .. args.tenure_months
          /\ loan_closed_month.month <= month
          /\ current_principal = Zero
    /\ pc \in {"amortize", "prepay", "close"} => loan_closed_month = None
    /\ \A i \in DOMAIN log :
          /\ log[i].closed = IF \E j \in 1 .. i : log[j].principal.m <= 0
                             THEN Closed(CHOOSE j \in 1 .. i :
                                           /\ log[j].principal.m <= 0
                                           /\ \A k \in 1 .. (j - 1) :
                                                 log[k].principal.m > 0)
                             ELSE None
          /\ (i > 1 /\ log[i - 1].closed # None) =>
                /\ log[i].principal = Zero
                /\ log[i].owed = None
                /\ log[i].lump = None
    /\ (log # <<>> /\ pc \in {"loop", "returned"}) =>
          loan_closed_month = log[Len(log)].closed

C2_ClosedMonthStep ==
    (loan_closed_month # None /\ ~NewCall) =>
        /\ loan_closed_month' = loan_closed_month
        /\ current_principal' = current_principal
        /\ lumpsum' = lumpsum

C2_ClosedMonthMachine == []C2_ClosedMonthState /\ [][C2_ClosedMonthStep]_vars

\* A run closed before its last month and went on to the end.
C2_Witness ==
    /\ pc = "returned"
    /\ loan_closed_month # None
    /\ loan_closed_month.month > 1
    /\ loan_closed_month.month < args.tenure_months

\* C3: the lumpsum is withdrawn at most once per run, only in the iteration
\* with month = prepay_month and only if the principal is > 0 after that
\* month's amortization; it is min(fund after the contribution, principal)
\* and the same amount leaves the fund and the principal.  No other step
\* withdraws from the fund.
C3_LumpsumState ==
    /\ \A i \in DOMAIN log :
          log[i].lump # None =>
              /\ i = prepay_month
              /\ log[i].owed.m > 0
              /\ log[i].lump = FMin(log[i].fund, log[i].owed)
              /\ log[i].principal = FSub(log[i].owed, log[i].lump)
    /\ Cardinality(LumpMonths(log)) <= 1
    /\ lumpsum # None => prepay_month \in 1 .. month

C3_LumpsumStep ==
    IF pc = "prepay" /\ month = prepay_month /\ current_principal.m > 0
    THEN /\ lumpsum' = FMin(current_mf_value, current_principal)
         /\ current_mf_value' = FSub(current_mf_value, lumpsum')
         /\ current_principal' = FSub(current_principal, lumpsum')
    ELSE /\ NewCall \/ lumpsum' = lumpsum
         /\ pc = "prepay" => /\ current_mf_value' = current_mf_value
                             /\ current_principal' = current_principal

C3_LumpsumOnce == []C3_LumpsumState /\ [][C3_LumpsumStep]_vars

\* A run returned after a lumpsum that emptied a fund smaller than the
\* principal.
C3_Witness ==
    /\ pc = "returned"
    /\ lumpsum # None
    /\ \E i \in DOMAIN log : /\ log[i].lump # None
                             /\ log[i].lump.m > 0
                             /\ log[i].lump = log[i].fund
                             /\ FLt(log[i].fund, log[i].owed)
                             /\ i < Len(log)

\* C4: if in month prepay_month the principal after amortization is > 0 and
\* the fund after the contribution is >= that principal, the loan closes in
\* exactly that month and the principal is 0 from then on.
C4_FullPayoff ==
    /\ \A i \in DOMAIN log :
          (/\ i = prepay_month
           /\ log[i].owed # None
           /\ log[i].owed.m > 0
           /\ FLe(log[i].owed, log[i].fund)) =>
              /\ log[i].closed = Closed(prepay_month)
              /\ \A j \in i .. Len(log) : log[j].principal = Zero
    /\ (/\ pc \in {"close", "grow_fund"}
        /\ month = prepay_month
        /\ iter.owed # None
        /\ iter.owed.m > 0
        /\ FLe(iter.owed, iter.fund)) =>
            /\ current_principal = Zero
            /\ pc = "grow_fund" => loan_closed_month = Closed(prepay_month)

\* A run returned whose lumpsum paid the loan off before the last month while
\* the plain run of the same arguments had not closed by then.
C4_Witness ==
    /\ pc = "returned" /\ ValidCall
    /\ prepay_month \in 1 .. (args.tenure_months - 1)
    /\ loan_closed_month = Closed(prepay_month)
    /\ log[prepay_month].lump = log[prepay_month].owed
    /\ log[prepay_month].owed.m > 0

\* The fund addend of month i of a run whose closed month is c.
ExpectedContribution(i, c) ==
    IF c # None /\ i > c.month
    THEN FAdd(emi, args.mf_monthly_addition)
    ELSE args.mf_monthly_addition

\* C5: the fund receives mf_monthly_addition in every month up to and
\* including the closure month and emi + mf_monthly_addition in every later
\* month; a loan that never closes or closes in the last month never sends
\* its EMI to the fund.
C5_ContributionState ==
    /\ \A i \in DOMAIN log :
          log[i].contrib = ExpectedContribution(i, loan_closed_month)
    /\ (pc \in {"amortize", "prepay", "close", "grow_fund"}) =>
          iter.contrib = ExpectedContribution(month, loan_closed_month)

C5_ContributionStep ==
    pc = "contribute" =>
        current_mf_value' =
            FAdd(current_mf_value, ExpectedContribution(month, loan_closed_month))

C5_Contribution == []C5_ContributionState /\ [][C5_ContributionStep]_vars

\* A run returned whose loan closed before the last month, so that the next
\* month's addend was emi + mf_monthly_addition and not the plain addition.
C5_Witness ==
    /\ pc = "returned" /\ ValidCall
    /\ loan_closed_month # None
    /\ loan_closed_month.month < args.tenure_months
    /\ log[loan_closed_month.month + 1].contrib = FAdd(emi, args.mf_monthly_addition)
    /\ log[loan_closed_month.month + 1].contrib # args.mf_monthly_addition
    /\ log[loan_closed_month.month].contrib = args.mf_monthly_addition

\* C6: without prepayment (prepay_month = 0) and with the EMI of
\* calculate_emi, the loan is recorded closed by month = tenure, and no
\* lumpsum is ever withdrawn from the fund.
C6_BaselineAmortizes ==
    (pc = "returned" /\ ValidArgs /\ prepay_month = 0) =>
        /\ loan_closed_month # None
        /\ loan_closed_month.month <= args.tenure_months
        /\ LumpMonths(log) = {}
        /\ lumpsum = None

\* C7: a call with invalid input (tenure_months <= 0, a negative principal,
\* a prepay month outside 0..tenure) ends with an InvalidInput error, not
\* with a division by zero or a returned result.
C7_InvalidInputRejected ==
    (pc \in {"returned", "raised"} /\ ~ValidCall) =>
        outcome.kind = "InvalidInput"

\* C8: the sweep yields tenure + 1 records, for prepay months 0, 1, ...,
\* tenure in increasing order; each holds the prepay month, the house value,
\* the fund value, their sum as net worth, and the loan-closed month its
\* simulation returned.
C8_SweepRecords ==
    /\ \A i \in DOMAIN results :
          /\ results[i].PrepayMonth = i - 1
          /\ results[i].NetWorth = FAdd(results[i].HouseValue, results[i].MFValue)
          /\ "LoanClosedMonth" \in DOMAIN results[i]
    /\ (pc = "main" /\ results # <<>>) =>
          /\ results[Len(results)].HouseValue = outcome.house
          /\ results[Len(results)].MFValue = outcome.mf
          /\ IF "LoanClosedMonth" \in DOMAIN results[Len(results)]
             THEN results[Len(results)].LoanClosedMonth = outcome.closed
             ELSE FALSE
    /\ pc = "df" => Len(results) = args.tenure_months + 1

\* C9: a prepay month that no iteration matches is inert: the second run,
\* with prepay_month = 0 or prepay_month > tenure, returns the same (house
\* value, fund value, loan-closed month) as the run with prepay_month = 0,
\* and neither run withdraws a lumpsum.
C9_InertPrepayMonth ==
    (/\ calls = 2 /\ pc = "returned"
     /\ (prepay_month = 0 \/ prepay_month > args.tenure_months)) =>
        /\ outcome = base.outcome
        /\ lumpsum = None
        /\ LumpMonths(log) = {}
        /\ LumpMonths(base.log) = {}

\* A valid run with prepay_month beyond the tenure returned, on arguments for
\* which a prepayment in the last month would have been made from a fund
\* that is not empty.
C9_Witness ==
    /\ calls = 2 /\ pc = "returned" /\ ValidArgs
    /\ prepay_month = args.tenure_months + 1
    /\ outcome = base.outcome
    /\ log[Len(log)].owed # None
    /\ log[Len(log)].owed.m > 0
    /\ log[Len(log)].fund.m > 0

\* C10: on valid input a prepayment never delays closure: at the end of every
\* month the principal of the run with prepay_month p in 1..tenure is <= the
\* principal of the run with prepay_month 0 at the end of the same month, and
\* if the latter closes in month m0 the former closes in some month <= m0.
C10_PrepaymentNeverDelays ==
    (/\ calls = 2 /\ InRun /\ ValidArgs
     /\ prepay_month \in 1 .. args.tenure_months) =>
        /\ \A i \in DOMAIN log :
              FLe(log[i].principal, base.log[i].principal)
        /\ (pc = "returned" /\ base.outcome.closed # None) =>
              /\ loan_closed_month # None
              /\ loan_closed_month.month <= base.outcome.closed.month

\* A run with a prepayment closed strictly earlier than the run without.
C10_Witness ==
    /\ calls = 2 /\ pc = "returned" /\ ValidArgs
    /\ prepay_month \in 1 .. args.tenure_months
    /\ base.outcome.closed # None
    /\ loan_closed_month # None
    /\ loan_closed_month.month < base.outcome.closed.month
    /\ \E i \in DOMAIN log : FLt(log[i].principal, base.log[i].principal)

=============================================================================
